---- MODULE Spec2Model ----
(***************************************************************************)
(* State-machine model of market_data_service.py: the aggregated-data      *)
(* endpoint with its module-level cache, the klines endpoint, the three    *)
(* upstream fetchers and the pure aggregation function.                    *)
(*                                                                         *)
(* Python strings that the code takes apart (symbols) are sequences of     *)
(* one-character strings; opaque string values are one-element sequences.  *)
(* Python dicts are functions; the empty dict is the function with the     *)
(* empty domain.  The handlers are asyncio coroutines: a handler runs      *)
(* without interruption between two awaits, so each action below is the    *)
(* code between two suspension points.                                     *)
(***************************************************************************)
EXTENDS Integers, Sequences, FiniteSets, TLC

\* ------------------------------------------------------------------------
\* Bounds of the model
\* ------------------------------------------------------------------------
\* number of clock advances explored
MaxTicks == 2
\* value of time.time() when the process starts
StartTime == 1000

\* ------------------------------------------------------------------------
\* Program constants
\* ------------------------------------------------------------------------
CACHE_DURATION_SECONDS == 300

HTTP_200_OK == 200
HTTP_400_BAD_REQUEST == 400
HTTP_404_NOT_FOUND == 404
\* the status FastAPI answers when a required query parameter is absent
HTTP_422_UNPROCESSABLE_ENTITY == 422
HTTP_503_SERVICE_UNAVAILABLE == 503

\* ------------------------------------------------------------------------
\* Python values
\* ------------------------------------------------------------------------
None == <<"None">>
EmptyDict == [k \in {} |-> None]
EmptyStr == << >>

\* dict.get(key, default)
Get(d, k, default) == IF k \in DOMAIN d THEN d[k] ELSE default

\* truth value of a dict, list or str: non-empty
Truthy(v) == DOMAIN v # {}

\* a suffix test that accepts the suffix anywhere in the string
endswith_contains(s, suffix) ==
    \E i \in 1..Len(s) :
        /\ i + Len(suffix) - 1 <= Len(s)
        /\ SubSeq(s, i, i + Len(suffix) - 1) = suffix

\* str.endswith(suffix)
endswith(s, suffix) ==
    /\ Len(s) >= Len(suffix)
    /\ SubSeq(s, Len(s) - Len(suffix) + 1, Len(s)) = suffix

\* s[i:] starts with old
StartsAt(s, i, old) ==
    /\ i + Len(old) - 1 <= Len(s)
    /\ SubSeq(s, i, i + Len(old) - 1) = old

\* str.replace(old, new): every non-overlapping occurrence, left to right
RECURSIVE ReplaceFrom(_, _, _, _)
ReplaceFrom(s, i, old, new) ==
    IF i > Len(s) THEN << >>
    ELSE IF StartsAt(s, i, old)
         THEN new \o ReplaceFrom(s, i + Len(old), old, new)
         ELSE <<s[i]>> \o ReplaceFrom(s, i + 1, old, new)

replace(s, old, new) == ReplaceFrom(s, 1, old, new)

UpperChar(c) ==
    CASE c = "b" -> "B"
      [] c = "t" -> "T"
      [] c = "c" -> "C"
      [] c = "e" -> "E"
      [] c = "h" -> "H"
      [] c = "x" -> "X"
      [] c = "u" -> "U"
      [] c = "s" -> "S"
      [] c = "d" -> "D"
      [] OTHER -> c

\* str.upper()
upper(s) == [i \in DOMAIN s |-> UpperChar(s[i])]

USDT == <<"U", "S", "D", "T">>

\* ------------------------------------------------------------------------
\* Upstream payloads the fetchers can receive
\* ------------------------------------------------------------------------
BTCUSDT == <<"B", "T", "C", "U", "S", "D", "T">>
ETHUSDT == <<"E", "T", "H", "U", "S", "D", "T">>
ETHBTC == <<"E", "T", "H", "B", "T", "C">>
USDTXUSDT == <<"U", "S", "D", "T", "X", "U", "S", "D", "T">>
USDTEUR == <<"U", "S", "D", "T", "E", "U", "R">>

TickerBTC == [symbol |-> BTCUSDT, lastPrice |-> <<"50000">>,
              price24hPcnt |-> <<"0.02">>, volume24h |-> <<"1000">>]
TickerETH == [symbol |-> ETHUSDT, lastPrice |-> <<"3000">>,
              price24hPcnt |-> <<"0.01">>, volume24h |-> <<"500">>]
TickerETHBTC == [symbol |-> ETHBTC, lastPrice |-> <<"0.06">>,
                 price24hPcnt |-> <<"0.00">>, volume24h |-> <<"10">>]
\* an item without lastPrice
TickerX == [symbol |-> USDTXUSDT, price24hPcnt |-> <<"0.05">>,
            volume24h |-> <<"7">>]
\* a pair quoted in another currency whose base is USDT
TickerUSDTEUR == [symbol |-> USDTEUR, lastPrice |-> <<"0.9">>,
                  price24hPcnt |-> <<"0.00">>, volume24h |-> <<"3">>]
\* an item whose symbol is the suffix alone
TickerUSDT == [symbol |-> USDT, lastPrice |-> <<"1">>,
               price24hPcnt |-> <<"0.00">>, volume24h |-> <<"1">>]
\* an item without symbol
TickerNoSymbol == [lastPrice |-> <<"1">>]

\* what GET /v5/market/tickers can produce: an exception (network, timeout,
\* HTTP status, malformed body) or a JSON body
BybitTickerResponses ==
    { [kind |-> "error"],
      [kind |-> "ok", retCode |-> 10001, list |-> <<TickerBTC>>],
      [kind |-> "ok", retCode |-> 0, list |-> <<TickerETHBTC>>],
      [kind |-> "ok", retCode |-> 0, list |-> <<TickerBTC, TickerETHBTC>>],
      [kind |-> "ok", retCode |-> 0, list |-> <<TickerETH>>],
      [kind |-> "ok", retCode |-> 0, list |-> <<TickerBTC, TickerNoSymbol>>] }

CoinBTC == [symbol |-> <<"b", "t", "c">>, market_cap |-> <<"900000000000">>,
            market_cap_rank |-> <<"1">>, name |-> <<"Bitcoin">>,
            image |-> <<"url">>]
\* a coin whose name is missing
CoinX == [symbol |-> <<"x">>, market_cap |-> <<"5">>,
          market_cap_rank |-> <<"99">>, image |-> <<"urlx">>]
\* a coin whose symbol begins with the quote currency's
CoinUSDTX == [symbol |-> <<"u", "s", "d", "t", "x">>, market_cap |-> <<"6">>,
              market_cap_rank |-> <<"98">>, name |-> <<"UsdtX">>,
              image |-> <<"urlux">>]
\* a coin without symbol
CoinNoSymbol == [name |-> <<"Nameless">>]

\* what GET /api/v3/coins/markets can produce
CoinGeckoResponses ==
    { [kind |-> "error"],
      [kind |-> "ok", raw_data |-> <<CoinBTC, CoinNoSymbol>>] }

Candle1 == <<"1700000000000", "1", "2", "0", "1", "10", "10">>
Candle2 == <<"1700000060000", "1", "3", "1", "2", "20", "30">>

\* what GET /v5/market/kline can produce
KlineResponses ==
    { [kind |-> "error"],
      [kind |-> "http_status_error"],
      [kind |-> "ok", retCode |-> 10001, list |-> <<Candle1>>],
      [kind |-> "ok", retCode |-> 0, list |-> << >>],
      [kind |-> "ok", retCode |-> 0, list |-> <<Candle2, Candle1>>] }

\* a query parameter that the request does not carry
Absent == <<"absent">>

\* query parameters of a klines request
KlineSymbols == {Absent, EmptyStr, BTCUSDT}
KlineIntervals == {Absent, EmptyStr, <<"60">>}

\* ------------------------------------------------------------------------
\* Fetchers: the value returned for an upstream response
\* ------------------------------------------------------------------------
\* index of the last item of list with this symbol (a later key overwrites)
LastIndexOf(list, sym) ==
    CHOOSE i \in DOMAIN list :
        /\ list[i].symbol = sym
        /\ \A j \in DOMAIN list : list[j].symbol = sym => j <= i

fetch_coingecko_data(resp) ==
    IF resp.kind # "ok" THEN EmptyDict
    ELSE LET raw == resp.raw_data
             sym(i) == upper(Get(raw[i], "symbol", EmptyStr))
             keys == {sym(i) : i \in {j \in DOMAIN raw : Truthy(sym(j))}}
             last(k) == CHOOSE i \in DOMAIN raw :
                            /\ sym(i) = k
                            /\ \A j \in DOMAIN raw : sym(j) = k => j <= i
         IN [k \in keys |->
                [marketCapUSD |-> Get(raw[last(k)], "market_cap", None),
                 marketCapRank |-> Get(raw[last(k)], "market_cap_rank", None),
                 coinName |-> Get(raw[last(k)], "name", None),
                 coinLogoURL |-> Get(raw[last(k)], "image", None)]]

fetch_bybit_spot_tickers(resp) ==
    IF resp.kind # "ok" THEN EmptyDict
    ELSE IF resp.retCode = 0
         THEN IF \E i \in DOMAIN resp.list : "symbol" \notin DOMAIN resp.list[i]
              THEN EmptyDict   \* KeyError, caught by except Exception
              ELSE [s \in {resp.list[i].symbol : i \in DOMAIN resp.list} |->
                        resp.list[LastIndexOf(resp.list, s)]]
         ELSE EmptyDict

\* a fetcher that returns the candles oldest first
fetch_bybit_klines_reversed(resp) ==
    IF resp.kind # "ok" THEN << >>
    ELSE IF resp.retCode = 0 /\ Truthy(resp.list)
         THEN [i \in 1..Len(resp.list) |-> resp.list[Len(resp.list) + 1 - i]]
         ELSE << >>

fetch_bybit_klines(resp) ==
    IF resp.kind # "ok" THEN << >>
    ELSE IF resp.retCode = 0 /\ Truthy(resp.list)
         THEN resp.list
         ELSE << >>

\* the values the two fetchers of a refresh can return
CoinGeckoResults ==
    {fetch_coingecko_data(resp) : resp \in CoinGeckoResponses}
BybitTickerResults ==
    {fetch_bybit_spot_tickers(resp) : resp \in BybitTickerResponses}

\* ------------------------------------------------------------------------
\* Aggregation
\* ------------------------------------------------------------------------
base_coin(symbol) == replace(symbol, USDT, EmptyStr)

\* an aggregator that keeps only the pairs that have a market-cap entry
aggregate_data_inner_join(coingecko_data, bybit_data) ==
    [symbol \in {s \in DOMAIN bybit_data :
                    /\ endswith(s, USDT)
                    /\ base_coin(s) \in DOMAIN coingecko_data} |->
        [coinName |-> Get(coingecko_data[base_coin(symbol)], "coinName",
                          base_coin(symbol)),
         currentPrice |-> Get(bybit_data[symbol], "lastPrice", None),
         priceChange24hPcnt |-> Get(bybit_data[symbol], "price24hPcnt", None),
         volume24h |-> Get(bybit_data[symbol], "volume24h", None),
         coinLogoURL |-> Get(coingecko_data[base_coin(symbol)],
                             "coinLogoURL", None),
         marketCapUSD |-> Get(coingecko_data[base_coin(symbol)],
                              "marketCapUSD", None),
         marketCapRank |-> Get(coingecko_data[base_coin(symbol)],
                               "marketCapRank", None)]]

aggregate_data(coingecko_data, bybit_data) ==
    [symbol \in {s \in DOMAIN bybit_data : endswith(s, USDT)} |->
        LET bb_item == bybit_data[symbol]
            base == base_coin(symbol)
            has_cg == /\ base \in DOMAIN coingecko_data
                      /\ Truthy(coingecko_data[base])
        IN [coinName |-> IF has_cg
                         THEN Get(coingecko_data[base], "coinName", base)
                         ELSE base,
            currentPrice |-> Get(bb_item, "lastPrice", None),
            priceChange24hPcnt |-> Get(bb_item, "price24hPcnt", None),
            volume24h |-> Get(bb_item, "volume24h", None),
            coinLogoURL |-> IF has_cg
                            THEN Get(coingecko_data[base], "coinLogoURL", None)
                            ELSE None,
            marketCapUSD |-> IF has_cg
                             THEN Get(coingecko_data[base], "marketCapUSD", None)
                             ELSE None,
            marketCapRank |-> IF has_cg
                              THEN Get(coingecko_data[base], "marketCapRank", None)
                              ELSE None]]

\* ------------------------------------------------------------------------
\* State
\* ------------------------------------------------------------------------
\* the requests in flight at the same time: two slots, each serving one
\* request after the other; handlers share nothing but data_cache
Reqs == {1, 2}

\* the two fetchers of asyncio.gather
Fetchers == {"coingecko", "bybit"}

\* clock advances explored: one second, and one second less than the window
TickSteps == {1, CACHE_DURATION_SECONDS - 1}

VARIABLES
    now,             \* value time.time() returns
    ticks,           \* number of clock advances so far
    data_cache,      \* the module-level cache: last_updated, data
    pc,              \* per request: where its handler stands
    current_time,    \* per request: local current_time
    pending,         \* per request: fetchers of the gather still running
    calls,           \* per request: number of invocations of each fetcher
    seen,            \* per request: the cache as the cache check read it
    params,          \* per request: symbol and interval of a klines request
    response,        \* the HTTP response the last step sent, if it sent one
    last_write       \* the last cache store: what was stored, and when

vars == <<now, ticks, data_cache, pc, current_time, pending, calls, seen,
          params, response, last_write>>

\* requests are anonymous: a new request takes the first free slot
FreeSlot(r) ==
    /\ pc[r] = "idle"
    /\ \A q \in Reqs : q < r => pc[q] # "idle"

NoCalls == [coingecko |-> 0, bybit_tickers |-> 0, bybit_klines |-> 0]
\* a cache that is stamped with the time of the start of the service
InitialCache_stamped == [last_updated |-> StartTime, data |-> EmptyDict]

InitialCache == [last_updated |-> 0, data |-> EmptyDict]
NoWrite == [last_updated |-> 0, data |-> EmptyDict, at |-> 0]
NoParams == [symbol |-> EmptyStr, interval |-> EmptyStr]
NoUpstream == [kind |-> "none"]
NoResponse == [status |-> 0, body |-> EmptyDict, outcome |-> "none",
               calls |-> NoCalls, seen |-> InitialCache,
               coingecko_data |-> EmptyDict, bybit_data |-> EmptyDict,
               params |-> NoParams, upstream |-> NoUpstream]

Init ==
    /\ now = StartTime
    /\ ticks = 0
    /\ data_cache = InitialCache
    /\ pc = [r \in Reqs |-> "idle"]
    /\ current_time = [r \in Reqs |-> 0]
    /\ pending = [r \in Reqs |-> {}]
    /\ calls = [r \in Reqs |-> NoCalls]
    /\ seen = [r \in Reqs |-> InitialCache]
    /\ params = [r \in Reqs |-> NoParams]
    /\ response = NoResponse
    /\ last_write = NoWrite

\* the handler of request r returns or raises: its locals are gone
Return(r) ==
    /\ pc' = [pc EXCEPT ![r] = "idle"]
    /\ current_time' = [current_time EXCEPT ![r] = 0]
    /\ pending' = [pending EXCEPT ![r] = {}]
    /\ calls' = [calls EXCEPT ![r] = NoCalls]
    /\ seen' = [seen EXCEPT ![r] = InitialCache]
    /\ params' = [params EXCEPT ![r] = NoParams]

\* the response of a request that made the calls c, saw the cache s in its
\* cache check and got cg and bb from its fetchers
Respond(status, body, outcome, c, s, cg, bb) ==
    response' = [status |-> status, body |-> body, outcome |-> outcome,
                 calls |-> c, seen |-> s,
                 coingecko_data |-> cg, bybit_data |-> bb,
                 params |-> NoParams, upstream |-> NoUpstream]

\* the response of a klines request with the query parameters p that made the
\* calls c and whose upstream answered up
RespondKlines(status, body, outcome, c, p, up) ==
    response' = [status |-> status, body |-> body, outcome |-> outcome,
                 calls |-> c, seen |-> InitialCache,
                 coingecko_data |-> EmptyDict, bybit_data |-> EmptyDict,
                 params |-> p, upstream |-> up]

\* ------------------------------------------------------------------------
\* GET /api/market/aggregated_data
\* ------------------------------------------------------------------------
\* a cache check that also serves the cache while a refresh is in flight
IsFresh_single_flight(t, cache) ==
    \/ /\ t - cache.last_updated < CACHE_DURATION_SECONDS
       /\ Truthy(cache.data)
    \/ \E q \in Reqs : pc[q] = "gather"

\* the cache check with the window's end included
IsFresh_inclusive(t, cache) ==
    /\ t - cache.last_updated <= CACHE_DURATION_SECONDS
    /\ Truthy(cache.data)

\* the cache check of the handler
IsFresh(t, cache) ==
    /\ t - cache.last_updated < CACHE_DURATION_SECONDS
    /\ Truthy(cache.data)

\* a cache storage that forgets to set the timestamp
CacheStore_data_only(cache, final_data, t) ==
    [last_updated |-> cache.last_updated, data |-> final_data]

\* a cache storage that updates the old dict with the new entries
CacheStore_merge(cache, final_data, t) ==
    [last_updated |-> t,
     data |-> [k \in DOMAIN cache.data \cup DOMAIN final_data |->
                  IF k \in DOMAIN final_data THEN final_data[k]
                  ELSE cache.data[k]]]

\* the cache storage of the handler
CacheStore(cache, final_data, t) ==
    [last_updated |-> t, data |-> final_data]

\* a guard that stores whatever the aggregation produced
ShouldStore_always(final_data) == TRUE

\* the test that guards the cache storage: the aggregation is non-empty
ShouldStore(final_data) == Truthy(final_data)

\* a guard without the stale answer: a failed refresh always raises
HasFallback_never(cache) == FALSE

\* a guard that discards old data once it is older than the window
HasFallback_fresh_only(cache) ==
    /\ Truthy(cache.data)
    /\ now - cache.last_updated < CACHE_DURATION_SECONDS

\* a guard that tests the cache dict itself, which is never empty
HasFallback_dict(cache) == DOMAIN cache # {}

\* the test that guards the stale answer: old data exists
HasFallback(cache) == Truthy(cache.data)

\* the fetchers a refresh hands to asyncio.gather
GatherCalls == [coingecko |-> 1, bybit_tickers |-> 1, bybit_klines |-> 0]

\* the handler from its start to its first return or await
StartAggregated(r) ==
    /\ FreeSlot(r)
    /\ IF IsFresh(now, data_cache)
       THEN /\ Respond(HTTP_200_OK, data_cache.data, "FRESH_HIT",
                       NoCalls, data_cache, EmptyDict, EmptyDict)
            /\ Return(r)
       ELSE /\ pc' = [pc EXCEPT ![r] = "gather"]
            /\ current_time' = [current_time EXCEPT ![r] = now]
            /\ seen' = [seen EXCEPT ![r] = data_cache]
            /\ pending' = [pending EXCEPT ![r] = Fetchers]
            /\ calls' = [calls EXCEPT ![r] = GatherCalls]
            /\ response' = NoResponse
            /\ UNCHANGED params
    /\ UNCHANGED <<now, ticks, data_cache, last_write>>

\* fetcher f of request r returns; asyncio.gather keeps its value until the
\* other fetcher has returned too
FetcherReturns(r, f) ==
    /\ pc[r] = "gather"
    /\ f \in pending[r]
    /\ pending' = [pending EXCEPT ![r] = @ \ {f}]
    /\ response' = NoResponse
    /\ UNCHANGED <<now, ticks, data_cache, pc, current_time, calls, seen,
                   params, last_write>>

\* a gather that returns as soon as one fetcher has returned
GatherDone_first(p) == p # Fetchers

\* a gather that returns only while both fetchers are still running
GatherDone_inverted(p) == p = Fetchers

\* asyncio.gather returns when both fetchers have returned
GatherDone(p) == p = {}

\* the handler from the return of asyncio.gather to its end; coingecko_data
\* and bybit_data are what the two fetchers returned
Resume(r, coingecko_data, bybit_data) ==
    /\ pc[r] = "gather"
    /\ GatherDone(pending[r])
    /\ LET final_data == aggregate_data(coingecko_data, bybit_data)
       IN IF ShouldStore(final_data)
          THEN /\ data_cache' = CacheStore(data_cache, final_data, current_time[r])
               /\ last_write' = [last_updated |-> current_time[r],
                                 data |-> final_data, at |-> now]
               /\ Respond(HTTP_200_OK, final_data, "REFRESH_OK",
                          calls[r], seen[r], coingecko_data, bybit_data)
          ELSE /\ UNCHANGED <<data_cache, last_write>>
               /\ IF HasFallback(data_cache)
                  THEN Respond(HTTP_200_OK, data_cache.data,
                               "REFRESH_FAILED_WITH_FALLBACK",
                               calls[r], seen[r], coingecko_data, bybit_data)
                  ELSE Respond(HTTP_503_SERVICE_UNAVAILABLE, EmptyDict,
                               "REFRESH_FAILED_NO_DATA",
                               calls[r], seen[r], coingecko_data, bybit_data)
    /\ Return(r)
    /\ UNCHANGED <<now, ticks>>

\* ------------------------------------------------------------------------
\* GET /api/market/klines
\* ------------------------------------------------------------------------
KlineCalls == [coingecko |-> 0, bybit_tickers |-> 0, bybit_klines |-> 1]

\* a parameter check that rejects only when both parameters are missing
MissingParams_both(symbol, interval) == ~Truthy(symbol) /\ ~Truthy(interval)

\* the check for required parameters
MissingParams(symbol, interval) == ~Truthy(symbol) \/ ~Truthy(interval)

\* the handler from its start to its first raise or await
StartKlines(r, symbol, interval) ==
    /\ FreeSlot(r)
    /\ IF symbol = Absent \/ interval = Absent
       THEN \* symbol: str and interval: str have no default: the framework
            \* answers for the handler, which does not run
            /\ RespondKlines(HTTP_422_UNPROCESSABLE_ENTITY, EmptyDict,
                             "VALIDATION_ERROR", NoCalls,
                             [symbol |-> symbol, interval |-> interval],
                             NoUpstream)
            /\ Return(r)
       ELSE IF MissingParams(symbol, interval)
       THEN /\ RespondKlines(HTTP_400_BAD_REQUEST, EmptyDict,
                             "INVALID_REQUEST", NoCalls,
                             [symbol |-> symbol, interval |-> interval],
                             NoUpstream)
            /\ Return(r)
       ELSE /\ pc' = [pc EXCEPT ![r] = "klines"]
            /\ calls' = [calls EXCEPT ![r] = KlineCalls]
            /\ params' = [params EXCEPT ![r] =
                              [symbol |-> symbol, interval |-> interval]]
            /\ response' = NoResponse
            /\ UNCHANGED <<current_time, pending, seen>>
    /\ UNCHANGED <<now, ticks, data_cache, last_write>>

\* fetch_bybit_klines returns and the handler runs to its end
KlinesReturn(r, resp) ==
    /\ pc[r] = "klines"
    /\ LET klines == fetch_bybit_klines(resp)
       IN IF ~Truthy(klines)
          THEN RespondKlines(HTTP_404_NOT_FOUND, EmptyDict, "NO_DATA_FOUND",
                             calls[r], params[r], resp)
          ELSE RespondKlines(HTTP_200_OK, klines, "KLINES_OK",
                             calls[r], params[r], resp)
    /\ Return(r)
    /\ UNCHANGED <<now, ticks, data_cache, last_write>>

\* ------------------------------------------------------------------------
\* Environment
\* ------------------------------------------------------------------------
\* time passes
Tick(d) ==
    /\ ticks < MaxTicks
    /\ now' = now + d
    /\ ticks' = ticks + 1
    /\ response' = NoResponse
    /\ UNCHANGED <<data_cache, pc, current_time, pending, calls, seen,
                   params, last_write>>

Next ==
    \/ \E r \in Reqs : StartAggregated(r)
    \/ \E r \in Reqs, f \in Fetchers : FetcherReturns(r, f)
    \/ \E r \in Reqs, coingecko_data \in CoinGeckoResults,
          bybit_data \in BybitTickerResults :
           Resume(r, coingecko_data, bybit_data)
    \/ \E r \in Reqs, symbol \in KlineSymbols, interval \in KlineIntervals :
           StartKlines(r, symbol, interval)
    \/ \E r \in Reqs, resp \in KlineResponses : KlinesReturn(r, resp)
    \/ \E d \in TickSteps : Tick(d)

Spec == Init /\ [][Next]_vars

\* every upstream call of a refresh returns, with data or with a failure
\* (each call has a timeout), and a handler whose gather has returned is
\* resumed by the event loop
Fairness ==
    \A r \in Reqs :
        /\ \A f \in Fetchers : WF_vars(FetcherReturns(r, f))
        /\ WF_vars(\E coingecko_data \in CoinGeckoResults,
                      bybit_data \in BybitTickerResults :
                          Resume(r, coingecko_data, bybit_data))

FairSpec == Spec /\ Fairness

\* ------------------------------------------------------------------------
\* The aggregator alone, applied to maps of every shape the fetchers return
\* ------------------------------------------------------------------------
\* the largest maps: every coin and every ticker the fetchers can deliver
AllCoins ==
    fetch_coingecko_data(
        [kind |-> "ok", raw_data |-> <<CoinBTC, CoinX, CoinUSDTX>>])
AllTickers ==
    fetch_bybit_spot_tickers(
        [kind |-> "ok", retCode |-> 0,
         list |-> <<TickerBTC, TickerETH, TickerETHBTC, TickerX,
                    TickerUSDTEUR, TickerUSDT>>])

\* the arguments of aggregate_data: every part of the largest maps
CoinGeckoMaps == {[k \in S |-> AllCoins[k]] : S \in SUBSET DOMAIN AllCoins}
TickerMaps == {[k \in S |-> AllTickers[k]] : S \in SUBSET DOMAIN AllTickers}

\* one call of aggregate_data; the call and its result are kept in response
Aggregate(coingecko_data, bybit_data) ==
    /\ Respond(0, aggregate_data(coingecko_data, bybit_data), "AGGREGATED",
               NoCalls, InitialCache, coingecko_data, bybit_data)
    /\ UNCHANGED <<now, ticks, data_cache, pc, current_time, pending, calls,
                   seen, params, last_write>>

NextAggregate ==
    \E coingecko_data \in CoinGeckoMaps, bybit_data \in TickerMaps :
        Aggregate(coingecko_data, bybit_data)

SpecAggregate == Init /\ [][NextAggregate]_vars

\* ------------------------------------------------------------------------
\* Steps of a request, as an observer sees them
\* ------------------------------------------------------------------------
AggregatedOutcomes == {"FRESH_HIT", "REFRESH_OK", "REFRESH_FAILED_WITH_FALLBACK",
                       "REFRESH_FAILED_NO_DATA"}

\* a request is answered from the cache without a refresh
HitStep == response' # response /\ response'.outcome = "FRESH_HIT"

\* request r starts a refresh
RefreshStartStep(r) == pc[r] = "idle" /\ pc'[r] = "gather"

\* request r ends its refresh
RefreshEndStep(r) == pc[r] = "gather" /\ pc'[r] = "idle"

\* the cache is non-empty and younger than the freshness window
FreshNow ==
    /\ DOMAIN data_cache.data # {}
    /\ now - data_cache.last_updated < CACHE_DURATION_SECONDS

\* the requests whose refresh is in flight
InFlight == {r \in Reqs : pc[r] = "gather"}

\* ------------------------------------------------------------------------
\* Claims
\* ------------------------------------------------------------------------
\* C1: a request that starts with a non-empty cache younger than
\* CACHE_DURATION_SECONDS returns the cached data as it is, invokes no fetcher
\* and leaves the cache unchanged; a request that starts with an empty cache or
\* an age of at least the window invokes both fetchers.
C1_FreshHitElseRefresh ==
    [][ /\ HitStep =>
            /\ FreshNow
            /\ response'.status = HTTP_200_OK
            /\ response'.body = data_cache.data
            /\ response'.calls = NoCalls
            /\ data_cache' = data_cache
            /\ UNCHANGED <<pc, calls, pending>>
        /\ \A r \in Reqs : RefreshStartStep(r) =>
            /\ ~FreshNow
            /\ calls'[r].coingecko = 1
            /\ calls'[r].bybit_tickers = 1
            /\ pending'[r] = Fetchers
            /\ data_cache' = data_cache ]_vars

\* a request was answered from a cache one second younger than the window
C1_Witness ==
    /\ response.outcome = "FRESH_HIT"
    /\ response.body = data_cache.data
    /\ DOMAIN response.body # {}
    /\ now - data_cache.last_updated = CACHE_DURATION_SECONDS - 1

\* C2: a request that arrives less than CACHE_DURATION_SECONDS after a
\* successful refresh completed (wrote the cache) triggers no upstream call.
C2_NoRefreshWithinWindowOfWrite ==
    [][ \A r \in Reqs : RefreshStartStep(r) =>
            ~(last_write # NoWrite
              /\ now - last_write.at < CACHE_DURATION_SECONDS) ]_vars

\* C3: when the aggregation result of a refresh is non-empty, the request
\* replaces the cached data with exactly that result and returns that same
\* snapshot.
C3_RefreshOkStoresAndReturns ==
    [][ \A r \in Reqs :
          LET final_data == aggregate_data(response'.coingecko_data, response'.bybit_data)
          IN (RefreshEndStep(r) /\ DOMAIN final_data # {}) =>
                /\ data_cache'.data = final_data
                /\ response'.body = data_cache'.data
                /\ response'.status = HTTP_200_OK
                /\ response'.outcome = "REFRESH_OK" ]_vars

\* a refresh replaced a non-empty snapshot by one with other symbols
C3_Witness ==
    /\ response.outcome = "REFRESH_OK"
    /\ response.body = data_cache.data
    /\ DOMAIN response.seen.data # {}
    /\ DOMAIN response.seen.data # DOMAIN data_cache.data

\* C4 as stated: when the aggregation result is empty and a non-empty
\* snapshot was cached before the refresh began, the request returns exactly
\* that prior snapshot with a success response, and the cache after the request
\* is identical to the cache before it, under any interleaving.
C4_FallbackReturnsPriorSnapshot ==
    [][ \A r \in Reqs :
          LET final_data == aggregate_data(response'.coingecko_data, response'.bybit_data)
          IN (RefreshEndStep(r) /\ DOMAIN final_data = {}
                /\ DOMAIN seen[r].data # {}) =>
                /\ response'.status = HTTP_200_OK
                /\ response'.body = seen[r].data
                /\ data_cache' = seen[r] ]_vars

\* C4 as amended: when the aggregation result is empty and a non-empty
\* snapshot was cached before the refresh began, the request returns with a
\* success response the snapshot the cache holds when the request resumes, and
\* leaves cache data and timestamp as they are at that moment; that snapshot is
\* the prior one unless another request's refresh stored the cache after this
\* request began.
C4_FallbackReturnsCurrentSnapshot ==
    [][ \A r \in Reqs :
          LET final_data == aggregate_data(response'.coingecko_data, response'.bybit_data)
          IN (RefreshEndStep(r) /\ DOMAIN final_data = {}
                /\ DOMAIN seen[r].data # {}) =>
                /\ response'.status = HTTP_200_OK
                /\ response'.outcome = "REFRESH_FAILED_WITH_FALLBACK"
                /\ response'.body = data_cache.data
                /\ DOMAIN response'.body # {}
                /\ data_cache' = data_cache
                /\ \/ data_cache = seen[r]
                   \/ /\ last_write.at >= current_time[r]
                      /\ data_cache.data = last_write.data
                      /\ data_cache.last_updated = last_write.last_updated ]_vars

\* a failed refresh answered with the snapshot it had seen when it began, at
\* least one window old
C4_Witness ==
    /\ response.outcome = "REFRESH_FAILED_WITH_FALLBACK"
    /\ DOMAIN response.seen.data # {}
    /\ response.body = response.seen.data
    /\ data_cache = response.seen
    /\ now - data_cache.last_updated >= CACHE_DURATION_SECONDS

\* C5: when the aggregation result is empty and the cache holds no snapshot,
\* the request fails with 503 and the cache stays empty with its timestamp
\* unset; 503 is the only failure the aggregated-data handler produces.
C5_NoDataIs503 ==
    [][ /\ \A r \in Reqs :
             LET final_data == aggregate_data(response'.coingecko_data, response'.bybit_data)
             IN (RefreshEndStep(r) /\ DOMAIN final_data = {}
                   /\ DOMAIN data_cache.data = {}) =>
                   /\ response'.status = HTTP_503_SERVICE_UNAVAILABLE
                   /\ data_cache = InitialCache
                   /\ data_cache' = InitialCache
        /\ response'.outcome \in AggregatedOutcomes =>
             /\ response'.status \in {HTTP_200_OK, HTTP_503_SERVICE_UNAVAILABLE}
             /\ response'.status = HTTP_503_SERVICE_UNAVAILABLE
                  <=> response'.outcome = "REFRESH_FAILED_NO_DATA" ]_vars

\* a refresh failed with nothing cached: 503, cache as initially
C5_Witness ==
    /\ response.outcome = "REFRESH_FAILED_NO_DATA"
    /\ response.status = HTTP_503_SERVICE_UNAVAILABLE
    /\ data_cache = InitialCache

\* C6: the cached snapshot changes only in a step of a request whose own
\* aggregation result is non-empty; a failed refresh, a cache hit and a klines
\* request never modify data or timestamp, and a cache that has become
\* non-empty never becomes empty again.
C6_CacheChangesOnlyOnSuccess ==
    [][ /\ data_cache' # data_cache =>
             \E r \in Reqs :
                /\ RefreshEndStep(r)
                /\ DOMAIN aggregate_data(response'.coingecko_data, response'.bybit_data) # {}
                /\ data_cache'.data =
                       aggregate_data(response'.coingecko_data, response'.bybit_data)
        /\ DOMAIN data_cache.data # {} => DOMAIN data_cache'.data # {} ]_vars

\* a failed refresh ended while the cache held a snapshot, which is still there
C6_Witness ==
    /\ response.outcome = "REFRESH_FAILED_WITH_FALLBACK"
    /\ DOMAIN data_cache.data # {}
    /\ data_cache.data = last_write.data

\* C7: once a refresh has succeeded, no aggregated-data request returns 503,
\* however long the upstreams stay down; a 503 is returned only when no
\* aggregation has ever succeeded.
C7_No503AfterSuccess ==
    [][ \A r \in Reqs :
          (RefreshEndStep(r)
             /\ response'.status = HTTP_503_SERVICE_UNAVAILABLE) =>
                /\ last_write = NoWrite
                /\ DOMAIN seen[r].data = {} ]_vars

\* after a success a refresh failed with a snapshot two windows old: no 503
C7_Witness ==
    /\ last_write # NoWrite
    /\ response.outcome = "REFRESH_FAILED_WITH_FALLBACK"
    /\ response.status = HTTP_200_OK
    /\ now - last_write.at >= CACHE_DURATION_SECONDS

\* C8 as stated: the cache is single-flight, at no time are two refreshes in
\* flight concurrently.
C8_SingleFlight == Cardinality(InFlight) <= 1

\* C8 as amended: the cache is not single-flight; whenever the cache is empty
\* or stale, a request that arrives starts its own pair of upstream fetches,
\* also while the refresh of another request is in flight.
C8_EveryStaleRequestRefreshes ==
    \A r \in Reqs :
        (FreeSlot(r) /\ ~FreshNow) =>
            ENABLED (StartAggregated(r) /\ pc'[r] = "gather"
                       /\ calls'[r] = GatherCalls
                       /\ InFlight' = InFlight \cup {r})

\* two refreshes, each with its own pair of fetcher calls, are in flight
C8_Witness ==
    /\ Cardinality(InFlight) >= 2
    /\ \A r \in InFlight : calls[r] = GatherCalls

\* C9: after a successful refresh writes the cache, the stored timestamp is
\* the time at which the write happened.
C9_TimestampIsWriteTime ==
    [][ \A r \in Reqs :
          (RefreshEndStep(r) /\ data_cache' # data_cache) =>
              data_cache'.last_updated = now ]_vars

\* C10: the cache write is indivisible: data and timestamp in the cache always
\* come from the same store, and the data is the complete output of that
\* store's single aggregation.
C10_WriteIndivisible ==
    /\ data_cache.data = last_write.data
    /\ data_cache.last_updated = last_write.last_updated

\* a refresh stored the cache while another refresh, begun before that store
\* with the cache still empty, has its fetchers' results and is about to resume
C10_Witness ==
    \E r \in Reqs :
        /\ pc[r] = "gather"
        /\ pending[r] = {}
        /\ seen[r] = InitialCache
        /\ DOMAIN data_cache.data # {}
        /\ last_write.at >= current_time[r]


\* ------------------------------------------------------------------------
\* Claims about the aggregator (specification SpecAggregate)
\* ------------------------------------------------------------------------
Aggregated == response.outcome = "AGGREGATED"

\* the symbol ends with the four characters USDT
HasUsdtSuffix(symbol) ==
    /\ Len(symbol) >= 4
    /\ \A i \in 1..4 : symbol[Len(symbol) - 4 + i] = USDT[i]

\* C11: the key set of the aggregator's output is exactly the set of keys of
\* the ticker map that end with "USDT": a subset of the ticker map's keys,
\* empty when the ticker map is empty or has no such key, whatever the
\* market-cap map holds.
C11_OutputKeysAreUsdtTickers ==
    Aggregated =>
        /\ DOMAIN response.body =
               {k \in DOMAIN response.bybit_data : HasUsdtSuffix(k)}
        /\ DOMAIN response.body \subseteq DOMAIN response.bybit_data
        /\ (\A k \in DOMAIN response.bybit_data : ~HasUsdtSuffix(k)) =>
               response.body = EmptyDict

\* an aggregation of a ticker map that holds pairs that end with USDT, a pair
\* that only begins with USDT and a pair without USDT, some of them without
\* market-cap entry
C11_Witness ==
    /\ Aggregated
    /\ {BTCUSDT, USDTEUR, ETHBTC, ETHUSDT} \subseteq DOMAIN response.bybit_data
    /\ DOMAIN response.body = {BTCUSDT, ETHUSDT}
    /\ DOMAIN response.coingecko_data = {<<"B", "T", "C">>}


\* the pair without its last four characters
WithoutSuffix(symbol) == SubSeq(symbol, 1, Len(symbol) - 4)

\* the entry C12 describes for a pair: the base symbol is the pair with only
\* its trailing suffix stripped
EntryAsStated(coingecko_data, bybit_data, symbol) ==
    LET base == WithoutSuffix(symbol)
        present == base \in DOMAIN coingecko_data
    IN [coinName |-> IF present THEN coingecko_data[base].coinName ELSE base,
        currentPrice |-> Get(bybit_data[symbol], "lastPrice", None),
        priceChange24hPcnt |-> Get(bybit_data[symbol], "price24hPcnt", None),
        volume24h |-> Get(bybit_data[symbol], "volume24h", None),
        coinLogoURL |-> IF present THEN coingecko_data[base].coinLogoURL
                        ELSE None,
        marketCapUSD |-> IF present THEN coingecko_data[base].marketCapUSD
                         ELSE None,
        marketCapRank |-> IF present THEN coingecko_data[base].marketCapRank
                          ELSE None]

\* C12: for every retained pair the base symbol is the pair with only its
\* trailing "USDT" stripped, also when "USDT" occurs elsewhere in the pair;
\* price, change and volume come from the ticker; name, logo, market cap and
\* rank come from the market-cap entry of the base symbol when there is one,
\* else the name is the base symbol and logo, market cap and rank are null.
C12_BaseIsPairWithoutSuffix ==
    Aggregated =>
        \A symbol \in DOMAIN response.body :
            response.body[symbol] =
                EntryAsStated(response.coingecko_data, response.bybit_data,
                              symbol)


\* ------------------------------------------------------------------------
\* Claims about the klines endpoint (specification Spec)
\* ------------------------------------------------------------------------
KlinesStartStep(r) == pc[r] = "idle" /\ pc'[r] = "klines"
KlinesEndStep(r) == pc[r] = "klines" /\ pc'[r] = "idle"
KlinesOutcomes ==
    {"VALIDATION_ERROR", "INVALID_REQUEST", "NO_DATA_FOUND", "KLINES_OK"}
NotGiven(p) == p = Absent \/ p = EmptyStr
KlinesAnswerStep == response' # response /\ response'.outcome \in KlinesOutcomes

\* C13: a klines request whose symbol or interval is missing or empty is
\* rejected with 400 before any upstream call is made, and no klines request,
\* valid or not, modifies the cache.
C13_MissingOrEmptyIs400 ==
    [][ /\ \A r \in Reqs :
              KlinesStartStep(r) =>
                  /\ ~NotGiven(params'[r].symbol)
                  /\ ~NotGiven(params'[r].interval)
                  /\ data_cache' = data_cache
        /\ KlinesAnswerStep =>
              /\ data_cache' = data_cache
              /\ last_write' = last_write
              /\ (NotGiven(response'.params.symbol)
                     \/ NotGiven(response'.params.interval)) =>
                    /\ response'.status = HTTP_400_BAD_REQUEST
                    /\ response'.calls = NoCalls
                    /\ pc' = pc ]_vars

\* the part of C13 that the program keeps: a klines request whose symbol or
\* interval is missing or empty is rejected with a client error, 400 when
\* both are given and one is empty, before any upstream call is made, and no
\* klines request modifies the cache.
C13_RejectedBeforeUpstreamCacheUntouched ==
    [][ /\ \A r \in Reqs :
              KlinesStartStep(r) =>
                  /\ ~NotGiven(params'[r].symbol)
                  /\ ~NotGiven(params'[r].interval)
                  /\ data_cache' = data_cache
        /\ KlinesAnswerStep =>
              /\ data_cache' = data_cache
              /\ last_write' = last_write
              /\ (NotGiven(response'.params.symbol)
                     \/ NotGiven(response'.params.interval)) =>
                    /\ response'.status \in {HTTP_400_BAD_REQUEST,
                                             HTTP_422_UNPROCESSABLE_ENTITY}
                    /\ response'.status = HTTP_400_BAD_REQUEST <=>
                          /\ response'.params.symbol # Absent
                          /\ response'.params.interval # Absent
                    /\ response'.calls = NoCalls
                    /\ pc' = pc ]_vars

\* a klines request with a symbol and an empty interval was rejected without
\* an upstream call while the cache held a snapshot
C13_Witness ==
    /\ response.outcome = "INVALID_REQUEST"
    /\ response.status = HTTP_400_BAD_REQUEST
    /\ response.params = [symbol |-> BTCUSDT, interval |-> EmptyStr]
    /\ response.calls = NoCalls
    /\ data_cache # InitialCache

\* C14: a klines request with both parameters makes exactly one call, to the
\* klines fetcher; when the fetcher's result is empty, which it is for every
\* upstream failure it absorbs, the response is 404, and otherwise the
\* response is 200 with exactly the candles the upstream listed, in the same
\* order.
C14_KlinesOneCallThenCandlesOr404 ==
    [][ /\ \A r \in Reqs :
              /\ KlinesStartStep(r) =>
                    calls'[r] = [coingecko |-> 0, bybit_tickers |-> 0,
                                 bybit_klines |-> 1]
              /\ KlinesEndStep(r) =>
                    /\ response'.outcome \in {"NO_DATA_FOUND", "KLINES_OK"}
                    /\ response'.params = params[r]
                    /\ response'.calls = calls[r]
                    /\ calls[r] = [coingecko |-> 0, bybit_tickers |-> 0,
                                   bybit_klines |-> 1]
        /\ (\E r \in Reqs : KlinesEndStep(r)) =>
              LET up == response'.upstream
                  listed == IF up.kind = "ok" /\ up.retCode = 0
                            THEN up.list ELSE << >>
              IN IF listed = << >>
                 THEN response'.status = HTTP_404_NOT_FOUND
                 ELSE /\ response'.status = HTTP_200_OK
                      /\ response'.body = listed ]_vars

\* a klines request was answered 200 with the two candles the upstream
\* listed, newest first, after one call
C14_Witness ==
    /\ response.outcome = "KLINES_OK"
    /\ response.status = HTTP_200_OK
    /\ response.body = <<Candle2, Candle1>>
    /\ response.upstream.list = <<Candle2, Candle1>>
    /\ response.calls.bybit_klines = 1


\* ------------------------------------------------------------------------
\* Claims about the cache and the refresh (specification Spec)
\* ------------------------------------------------------------------------
FailedOutcomes == {"REFRESH_FAILED_WITH_FALLBACK", "REFRESH_FAILED_NO_DATA"}

\* C15: in every reachable state the cached data is non-empty if and only if
\* the timestamp is set, that is last_updated is not its initial value 0; and
\* until the first store the cache is in its initial state, data empty and
\* timestamp unset.
C15_DataIffTimestampSet ==
    /\ Truthy(data_cache.data) <=> data_cache.last_updated # 0
    /\ last_write = NoWrite =>
          data_cache = [last_updated |-> 0, data |-> EmptyDict]

\* a refresh has just failed and left a cache with data and timestamp
C15_Witness ==
    /\ response.outcome = "REFRESH_FAILED_WITH_FALLBACK"
    /\ Truthy(data_cache.data)
    /\ data_cache.last_updated >= StartTime

\* C16: within one refresh the aggregation and the cache store happen only
\* after both fetches of that request have completed: no request stores the
\* cache or answers with a refresh outcome while one of its own two fetches
\* is pending; and a request is only ever suspended in its upstream calls.
C16_StoreOnlyAfterJoin ==
    [][ /\ \A r \in Reqs :
              /\ RefreshEndStep(r) => pending[r] = {}
              /\ pending[r] # {} =>
                    /\ pc'[r] = "gather"
                    /\ pending'[r] \subseteq pending[r]
              /\ pc[r] = "gather" => calls[r] = GatherCalls
              /\ pc[r] = "klines" => calls[r] = KlineCalls
              /\ pc[r] \in {"idle", "gather", "klines"}
        /\ data_cache' # data_cache =>
              \E r \in Reqs : RefreshEndStep(r) /\ pending[r] = {}
        /\ response'.outcome \in {"REFRESH_OK"} \cup FailedOutcomes =>
              \E r \in Reqs : RefreshEndStep(r) /\ pending[r] = {} ]_vars

\* a refresh has stored the cache while the other request, in its own
\* refresh, has one fetch returned and one pending
C16_Witness ==
    /\ response.outcome = "REFRESH_OK"
    /\ data_cache.data = response.body
    /\ \E r \in Reqs : pc[r] = "gather" /\ Cardinality(pending[r]) = 1

\* C17: the outcome of a refresh depends only on the ticker fetch: the
\* refresh succeeds if and only if the ticker result has at least one symbol
\* that ends with "USDT", whether the market-cap fetch succeeded or degraded
\* to empty; a successful market-cap fetch with an empty ticker result is a
\* failed refresh.
C17_OutcomeDependsOnTickersOnly ==
    [][ \A r \in Reqs :
          RefreshEndStep(r) =>
              LET has_usdt == \E symbol \in DOMAIN response'.bybit_data :
                                  HasUsdtSuffix(symbol)
              IN /\ response'.outcome = "REFRESH_OK" <=> has_usdt
                 /\ has_usdt =>
                       /\ response'.status = HTTP_200_OK
                       /\ Truthy(data_cache'.data)
                       /\ data_cache'.data = response'.body
                 /\ ~has_usdt =>
                       /\ response'.outcome \in FailedOutcomes
                       /\ data_cache' = data_cache ]_vars

\* a refresh succeeded on the tickers alone, the market-cap fetch having
\* degraded to empty
C17_Witness ==
    /\ response.outcome = "REFRESH_OK"
    /\ response.coingecko_data = EmptyDict
    /\ BTCUSDT \in DOMAIN response.bybit_data
    /\ ETHBTC \in DOMAIN response.bybit_data
    /\ DOMAIN data_cache.data = {BTCUSDT}


\* C18: there are no retries: one aggregated-data request invokes each of the
\* two fetchers at most once, and a refresh that fails ends the request and
\* leaves the timestamp untouched, so that a request that arrives after it
\* with the cache still empty or stale starts a refresh again.
C18_NoRetryNextRequestRefreshes ==
    /\ [][ \A r \in Reqs :
              /\ calls'[r].coingecko <= 1
              /\ calls'[r].bybit_tickers <= 1
              /\ RefreshEndStep(r) =>
                    /\ response'.calls = [coingecko |-> 1, bybit_tickers |-> 1,
                                          bybit_klines |-> 0]
                    /\ calls'[r] = NoCalls
                    /\ ~Truthy(aggregate_data(response'.coingecko_data,
                                              response'.bybit_data)) =>
                          /\ response'.outcome \in FailedOutcomes
                          /\ data_cache'.last_updated = data_cache.last_updated
                          /\ data_cache'.data = data_cache.data ]_vars
    /\ [](\A r \in Reqs :
             (response.outcome \in FailedOutcomes /\ FreeSlot(r) /\ ~FreshNow)
                 => ENABLED (StartAggregated(r) /\ RefreshStartStep(r)
                               /\ calls'[r] = GatherCalls))

\* a refresh that called each fetcher once has just failed and has left the
\* cache empty or stale
C18_Witness ==
    /\ response.outcome \in FailedOutcomes
    /\ response.calls.coingecko = 1
    /\ response.calls.bybit_tickers = 1
    /\ ~FreshNow
    /\ \E r \in Reqs : FreeSlot(r)

\* C19: under any interleaving of aggregated-data requests the stored
\* timestamp never decreases: every store leaves last_updated greater than
\* or equal to its previous value.
C19_TimestampNeverDecreases ==
    [][ data_cache'.last_updated >= data_cache.last_updated ]_vars

\* C20: if every upstream fetch eventually returns, every aggregated-data
\* request eventually completes, whatever other requests interleave with it,
\* with exactly one of the outcomes FRESH_HIT, REFRESH_OK,
\* REFRESH_FAILED_WITH_FALLBACK, all answered 200, or REFRESH_FAILED_NO_DATA,
\* answered 503.
C20_EveryRequestCompletes ==
    /\ \A r \in Reqs : (pc[r] = "gather") ~> (pc[r] = "idle")
    /\ [][ /\ \A r \in Reqs :
                RefreshEndStep(r) =>
                    /\ response'.outcome \in
                          {"REFRESH_OK"} \cup FailedOutcomes
                    /\ response'.status =
                          IF response'.outcome = "REFRESH_FAILED_NO_DATA"
                          THEN HTTP_503_SERVICE_UNAVAILABLE
                          ELSE HTTP_200_OK
          /\ (HitStep => response'.status = HTTP_200_OK)
          /\ response'.outcome \in AggregatedOutcomes =>
                (\/ HitStep /\ pc' = pc
                 \/ response' = response
                 \/ \E r \in Reqs : RefreshEndStep(r)) ]_vars

\* a request has completed with REFRESH_FAILED_NO_DATA, answered 503, while
\* the refresh of the other request is in flight
C20_Witness ==
    /\ response.outcome = "REFRESH_FAILED_NO_DATA"
    /\ response.status = HTTP_503_SERVICE_UNAVAILABLE
    /\ \E r \in Reqs : pc[r] = "gather" /\ pending[r] # {}

====
